---- MODULE Spec2Model ----
(***************************************************************************)
(* The NYOWORKS project CLI (src/cli/nyoworks.py): one JSON state file,    *)
(* .nyoworks/state.json, read whole and written whole by every command.    *)
(* The module models the file, the clock and the commands status, phase,   *)
(* task, feature and decision.  The lease commands (task claim / release / *)
(* locks / unlock) run one at a time with the clock in Spec, every command *)
(* runs one at a time in SpecAll, the lease commands run among the other   *)
(* writers of the file and the clock in SpecLife, the feature commands in  *)
(* SpecFeature.  SpecConc and SpecCreate run commands as separate          *)
(* processes whose load and save steps interleave.                         *)
(***************************************************************************)
EXTENDS Integers, Sequences, FiniteSets, TLC

VARIABLES file, now, last, prev, procs

vars == <<file, now, last, prev, procs>>

----------------------------------------------------------------------------
(* Bounds of the model *)

\* the wall clock stops advancing here (minutes after the first command)
MaxNow == 45
\* minutes the wall clock advances between two commands
TickMinutes == 15
\* number of CLI processes that run side by side in SpecConc
NumProcs == 2
\* longest decision log a run builds
MaxDecisions == 2
\* longest task list and longest decision log a run of every command builds
MaxEntries == 1

(* Program constants *)

\* timedelta(minutes=30)
LeaseMinutes == 30

----------------------------------------------------------------------------
(* Inputs *)

TaskIds == {"TASK-001", "TASK-002"}

\* args.role when --role is not given
NoRole == "<None>"
Roles == {NoRole, "backend-agent", "qa-agent"}

DecisionIds == {"D-001"}

Procs == 1..NumProcs

\* an option that was not given on the command line (argparse leaves None)
None == NoRole

\* task claim --role values: not given, empty, and a role
RolesGiven == {None, "", "qa-agent"}

\* phase --set values: not given, empty, a phase, and a word that is no phase
PhaseInputs == {None, "", "QA", "TESTING"}

AVAILABLE_FEATURES ==
    <<"payments", "appointments", "inventory", "crm", "cms", "ecommerce", "analytics",
      "notifications", "audit", "export", "realtime">>

\* feature ids given on the command line: three available ones and an unknown one
FeatureInputs == {"payments", "crm", "analytics", "billing"}

\* task create titles
Titles == {"Fix login"}

\* the elements of a list
Range(seq) == {seq[i] : i \in DOMAIN seq}

WORKFLOW_PHASES ==
    <<"DISCOVERY", "ARCHITECTURE", "PLANNING", "BACKEND", "FRONTEND", "QA", "DEPLOYMENT">>

----------------------------------------------------------------------------
(* The state document *)

\* the keys of the document, in the order they are written to the file
Keys ==
    <<"name", "code", "phase", "enabled_features", "agents", "tasks", "task_locks", "decisions">>

\* one position per key and one for the closing brace
Total == Len(Keys) + 1

KeySet == {Keys[i] : i \in 1..Len(Keys)}

\* an empty task_locks mapping
NoLocks == [t \in {} |-> 0]

\* a document with no key at all; a key that is not in `present` holds its blank
BlankDoc ==
    [present |-> {}, name |-> "", code |-> "", phase |-> "", enabled_features |-> <<>>,
     agents |-> {}, tasks |-> <<>>, task_locks |-> NoLocks, decisions |-> <<>>]

\* state.get(key, default)
Get(state, key, default) == IF key \in state.present THEN state[key] ELSE default

\* state[key] = value
Put(state, key, value) == [state EXCEPT ![key] = value, !.present = @ \cup {key}]

\* a project's document with every key written
FullProject ==
    [present |-> KeySet, name |-> "demo", code |-> "DEMO", phase |-> "DISCOVERY",
     enabled_features |-> <<>>, agents |-> {}, tasks |-> <<>>, task_locks |-> NoLocks,
     decisions |-> <<>>]

\* a project's document that has no task_locks, tasks or decisions key yet
BareProject ==
    [BlankDoc EXCEPT !.present = {"name", "code", "phase"}, !.name = "demo",
                     !.code = "DEMO", !.phase = "DISCOVERY"]

----------------------------------------------------------------------------
(* Time *)

\* datetime.isoformat(): the clock reading as text, here <<hours, minutes>>
IsoFormat(t) == <<t \div 60, t % 60>>

\* the instant an isoformat text stands for
FromIso(s) == s[1] * 60 + s[2]

\* text[:19]: the date and the time of day down to the second
Cut19(s) == SubSeq(s, 1, 2)

----------------------------------------------------------------------------
(* The state file *)

\* no .nyoworks/state.json
AbsentFile == [exists |-> FALSE, n |-> 0, doc |-> BlankDoc, bad |-> FALSE]

\* the first n positions of json.dump(state): the keys among Keys[1..n]
Prefix(state, n) ==
    LET kept == {Keys[i] : i \in 1..(IF n < Len(Keys) THEN n ELSE Len(Keys))}
    IN  [k \in DOMAIN state |->
            IF k = "present" THEN state.present \cap kept
            ELSE IF k \in kept THEN state[k] ELSE BlankDoc[k]]

\* a file holding the first n positions of json.dump(state)
FileOf(state, n) == [exists |-> TRUE, n |-> n, doc |-> Prefix(state, n), bad |-> FALSE]

\* a file with a hole, or with the bytes of two writers out of step: no JSON document
Garbled == [exists |-> TRUE, n |-> 0, doc |-> BlankDoc, bad |-> TRUE]

\* file f after a writer at position n writes positions n+1..k of json.dump(state)
\* into it, where the bytes of the two line up: the writer's keys replace those
\* positions, the rest of the file stays, and the file grows to k if it was shorter
Overlay(f, state, n, k) ==
    LET mine == {Keys[i] : i \in (n + 1)..(IF k < Len(Keys) THEN k ELSE Len(Keys))}
    IN  [exists |-> TRUE,
         n |-> IF f.n > k THEN f.n ELSE k,
         doc |-> [key \in DOMAIN state |->
                    IF key = "present"
                    THEN (f.doc.present \ mine) \cup (state.present \cap mine)
                    ELSE IF key \in mine THEN state[key] ELSE f.doc[key]],
         bad |-> FALSE]

\* a load_state that hands out an empty project when there is no file
load_state_default(f) ==
    IF ~f.exists THEN [kind |-> "state", doc |-> FullProject]
    ELSE IF f.n = Total /\ ~f.bad THEN [kind |-> "state", doc |-> f.doc]
    ELSE [kind |-> "error", doc |-> BlankDoc]

\* load_state(): None, the parsed document, or json.load raising
load_state(f) ==
    IF ~f.exists THEN [kind |-> "none", doc |-> BlankDoc]
    ELSE IF f.n = Total /\ ~f.bad THEN [kind |-> "state", doc |-> f.doc]
    ELSE [kind |-> "error", doc |-> BlankDoc]

\* save_state(state) run to its end: the file holds the whole document
save_state(state) == FileOf(state, Total)

\* `not state`: None and the empty dict are both false
Falsy(loaded) == loaded.kind = "none" \/ (loaded.kind = "state" /\ loaded.doc.present = {})

----------------------------------------------------------------------------
(* What a command prints and returns *)

\* one printed message: print_success / print_error / print_info, or a traceback
Out(kind, text, arg) == [kind |-> kind, text |-> text, arg |-> arg, rows |-> {}]

\* a printed table: print_header(text) and print_table(rows)
Table(text, rows) == [kind |-> "TABLE", text |-> text, arg |-> "", rows |-> rows]

\* the outcome of a handler: exit code, output, and the document it saved, if any
Res(exit, out, save, state) == [exit |-> exit, out |-> out, save |-> save, state |-> state]

NoOut == Out("", "", "")

----------------------------------------------------------------------------
(* Commands: Status *)

\* cmd_status(args)
cmd_status(f, args, t) ==
    LET loaded == load_state(f)
        state == loaded.doc
        tasks == Get(state, "tasks", <<>>)
        count(st) == Cardinality({i \in DOMAIN tasks : tasks[i].status = st})
        row == [name |-> Get(state, "name", "Unknown"), code |-> Get(state, "code", "N/A"),
                phase |-> Get(state, "phase", "DISCOVERY"),
                features |-> Get(state, "enabled_features", <<>>),
                pending |-> count("pending"), in_progress |-> count("in_progress"),
                completed |-> count("completed"), agents |-> Get(state, "agents", {}),
                locks |-> Cardinality(DOMAIN Get(state, "task_locks", NoLocks))]
    IN  IF loaded.kind = "error"
        THEN Res(1, Out("TRACEBACK", "json.JSONDecodeError", ""), FALSE, state)
        ELSE IF Falsy(loaded)
        THEN Res(1, Out("ERROR", "No project found. Run 'nyoworks new' to create a project.",
                        ""), FALSE, state)
        ELSE Res(0, Table("Project", {row}), FALSE, state)

----------------------------------------------------------------------------
(* Commands: Phase *)

\* the position of a phase in WORKFLOW_PHASES, the first one when it is none of them
PhaseIndex(phase) ==
    IF phase \in Range(WORKFLOW_PHASES)
    THEN CHOOSE i \in DOMAIN WORKFLOW_PHASES : WORKFLOW_PHASES[i] = phase
    ELSE 1

\* cmd_phase(args); args.set travels in the option slot of Args
cmd_phase(f, args, t) ==
    LET loaded == load_state(f)
        state == loaded.doc
        current_idx == PhaseIndex(Get(state, "phase", "DISCOVERY"))
        rows == {[n |-> i, phase |-> WORKFLOW_PHASES[i],
                  marker |-> IF i = current_idx THEN ">>>" ELSE "",
                  status |-> IF i = current_idx THEN "[CURRENT]"
                             ELSE IF i < current_idx THEN "[DONE]" ELSE ""] :
                 i \in DOMAIN WORKFLOW_PHASES}
    IN  IF loaded.kind = "error"
        THEN Res(1, Out("TRACEBACK", "json.JSONDecodeError", ""), FALSE, state)
        ELSE IF Falsy(loaded)
        THEN Res(1, Out("ERROR", "No project found.", ""), FALSE, state)
        ELSE IF args.role \notin {None, ""}
        THEN IF args.role \notin Range(WORKFLOW_PHASES)
             THEN Res(1, Out("ERROR", "Invalid phase. Must be one of", ""), FALSE, state)
             ELSE Res(0, Out("OK", "Phase set to", args.role), TRUE,
                      Put(state, "phase", args.role))
        ELSE Res(0, Table("Workflow Phases", rows), FALSE, state)

----------------------------------------------------------------------------
(* Commands: Feature *)

\* list.remove(x): the list without the first x
Remove(seq, x) ==
    LET at == CHOOSE i \in DOMAIN seq : seq[i] = x /\ \A j \in 1..(i - 1) : seq[j] # x
    IN  SubSeq(seq, 1, at - 1) \o SubSeq(seq, at + 1, Len(seq))

\* args.feature_command == "list"
feature_list(state, only) ==
    LET enabled == Get(state, "enabled_features", <<>>)
        rows == {[feature |-> AVAILABLE_FEATURES[i],
                  status |-> IF AVAILABLE_FEATURES[i] \in Range(enabled)
                             THEN "Enabled" ELSE "Disabled"] : i \in DOMAIN AVAILABLE_FEATURES}
    IN  IF only
        THEN Res(0, Table("Enabled Features", Range(enabled)), FALSE, state)
        ELSE Res(0, Table("All Features", rows), FALSE, state)

\* an enable that appends without looking whether the feature is already enabled
feature_enable_again(state, id) ==
    LET enabled == Get(state, "enabled_features", <<>>)
    IN  IF id \notin Range(AVAILABLE_FEATURES)
        THEN Res(1, Out("ERROR", "Unknown feature", id), FALSE, state)
        ELSE Res(0, Out("OK", "Feature enabled", id), TRUE,
                 Put(state, "enabled_features", Append(enabled, id)))

\* args.feature_command == "enable"
feature_enable(state, id) ==
    LET enabled == Get(state, "enabled_features", <<>>)
    IN  IF id \notin Range(AVAILABLE_FEATURES)
        THEN Res(1, Out("ERROR", "Unknown feature", id), FALSE, state)
        ELSE IF id \notin Range(enabled)
        THEN Res(0, Out("OK", "Feature enabled", id), TRUE,
                 Put(state, "enabled_features", Append(enabled, id)))
        ELSE Res(0, Out("OK", "Feature enabled", id), FALSE, state)

\* args.feature_command == "disable"
feature_disable(state, id) ==
    LET enabled == Get(state, "enabled_features", <<>>)
    IN  IF id \in Range(enabled)
        THEN Res(0, Out("OK", "Feature disabled", id), TRUE,
                 Put(state, "enabled_features", Remove(enabled, id)))
        ELSE Res(0, Out("OK", "Feature disabled", id), FALSE, state)

\* cmd_feature(args)
cmd_feature(f, args, t) ==
    LET loaded == load_state(f)
        state == loaded.doc
    IN  IF loaded.kind = "error"
        THEN Res(1, Out("TRACEBACK", "json.JSONDecodeError", ""), FALSE, state)
        ELSE IF Falsy(loaded)
        THEN Res(1, Out("ERROR", "No project found.", ""), FALSE, state)
        ELSE IF args.sub = "list" THEN feature_list(state, args.role = "--enabled")
        ELSE IF args.sub = "enable" THEN feature_enable(state, args.id)
        ELSE IF args.sub = "disable" THEN feature_disable(state, args.id)
        ELSE Res(0, NoOut, FALSE, state)

----------------------------------------------------------------------------
(* Commands: Task *)

\* a claim that lets the recorded holder claim again and so renew its lease
task_claim_renew(state, id, role, t) ==
    LET task_locks == Get(state, "task_locks", NoLocks)
        holder == IF role \in {NoRole, ""} THEN "manual" ELSE role
        lock == [task_id |-> id, agent_role |-> holder, claimed_at |-> IsoFormat(t),
                 expires_at |-> IsoFormat(t + LeaseMinutes)]
        locked == [k \in DOMAIN task_locks \cup {id} |->
                      IF k = id THEN lock ELSE task_locks[k]]
    IN  IF id \in DOMAIN task_locks /\ task_locks[id].agent_role # holder
        THEN Res(1, Out("ERROR", "Task already claimed by", task_locks[id].agent_role),
                 FALSE, state)
        ELSE Res(0, Out("OK", "Claimed task", id), TRUE, Put(state, "task_locks", locked))

\* a claim that stores now, not expires, as expires_at
task_claim_no_expiry(state, id, role, t) ==
    LET task_locks == Get(state, "task_locks", NoLocks)
        lock == [task_id |-> id,
                 agent_role |-> IF role \in {NoRole, ""} THEN "manual" ELSE role,
                 claimed_at |-> IsoFormat(t),
                 expires_at |-> IsoFormat(t)]
        locked == [k \in DOMAIN task_locks \cup {id} |->
                      IF k = id THEN lock ELSE task_locks[k]]
    IN  IF id \in DOMAIN task_locks
        THEN Res(1, Out("ERROR", "Task already claimed by", task_locks[id].agent_role),
                 FALSE, state)
        ELSE Res(0, Out("OK", "Claimed task", id), TRUE, Put(state, "task_locks", locked))

\* a claim that takes "manual" only when --role is absent
task_claim_role_as_given(state, id, role, t) ==
    LET task_locks == Get(state, "task_locks", NoLocks)
        lock == [task_id |-> id,
                 agent_role |-> IF role = NoRole THEN "manual" ELSE role,
                 claimed_at |-> IsoFormat(t),
                 expires_at |-> IsoFormat(t + LeaseMinutes)]
        locked == [k \in DOMAIN task_locks \cup {id} |->
                      IF k = id THEN lock ELSE task_locks[k]]
    IN  IF id \in DOMAIN task_locks
        THEN Res(1, Out("ERROR", "Task already claimed by", task_locks[id].agent_role),
                 FALSE, state)
        ELSE Res(0, Out("OK", "Claimed task", id), TRUE, Put(state, "task_locks", locked))

\* args.task_command == "claim"
task_claim(state, id, role, t) ==
    LET task_locks == Get(state, "task_locks", NoLocks)
        lock == [task_id |-> id,
                 agent_role |-> IF role \in {NoRole, ""} THEN "manual" ELSE role,
                 claimed_at |-> IsoFormat(t),
                 expires_at |-> IsoFormat(t + LeaseMinutes)]
        locked == [k \in DOMAIN task_locks \cup {id} |->
                      IF k = id THEN lock ELSE task_locks[k]]
    IN  IF id \in DOMAIN task_locks
        THEN Res(1, Out("ERROR", "Task already claimed by", task_locks[id].agent_role),
                 FALSE, state)
        ELSE Res(0, Out("OK", "Claimed task", id), TRUE, Put(state, "task_locks", locked))

\* a release that treats an unlocked task as already released
task_release_idempotent(state, id) ==
    LET task_locks == Get(state, "task_locks", NoLocks)
        rest == [k \in DOMAIN task_locks \ {id} |-> task_locks[k]]
    IN  IF id \notin DOMAIN task_locks
        THEN Res(0, Out("OK", "Released task", id), FALSE, state)
        ELSE Res(0, Out("OK", "Released task", id), TRUE, Put(state, "task_locks", rest))

\* a release that deletes the entry in memory and never calls save_state
task_release_no_save(state, id) ==
    LET task_locks == Get(state, "task_locks", NoLocks)
        rest == [k \in DOMAIN task_locks \ {id} |-> task_locks[k]]
    IN  IF id \notin DOMAIN task_locks
        THEN Res(1, Out("ERROR", "Task is not locked", id), FALSE, state)
        ELSE Res(0, Out("OK", "Released task", id), FALSE, Put(state, "task_locks", rest))

\* a release that empties the whole table
task_release_all(state, id) ==
    LET task_locks == Get(state, "task_locks", NoLocks)
    IN  IF id \notin DOMAIN task_locks
        THEN Res(1, Out("ERROR", "Task is not locked", id), FALSE, state)
        ELSE Res(0, Out("OK", "Released task", id), TRUE, Put(state, "task_locks", NoLocks))

\* args.task_command == "release"
task_release(state, id) ==
    LET task_locks == Get(state, "task_locks", NoLocks)
        rest == [k \in DOMAIN task_locks \ {id} |-> task_locks[k]]
    IN  IF id \notin DOMAIN task_locks
        THEN Res(1, Out("ERROR", "Task is not locked", id), FALSE, state)
        ELSE Res(0, Out("OK", "Released task", id), TRUE, Put(state, "task_locks", rest))

\* a listing that leaves out the leases past their expires_at
task_locks_list_unexpired(state) ==
    LET locks == Get(state, "task_locks", NoLocks)
        live == {k \in DOMAIN locks : now < FromIso(locks[k].expires_at)}
        rows == {[task |-> locks[k].task_id, agent |-> locks[k].agent_role,
                  claimed |-> Cut19(locks[k].claimed_at),
                  expires |-> Cut19(locks[k].expires_at)] : k \in live}
    IN  IF live = {}
        THEN Res(0, Out("INFO", "No active locks.", ""), FALSE, state)
        ELSE Res(0, Table("Active Task Locks", rows), FALSE, state)

\* a listing that drops the leases past their expires_at from the table and saves
task_locks_list_sweep(state) ==
    LET locks == Get(state, "task_locks", NoLocks)
        live == {k \in DOMAIN locks : now < FromIso(locks[k].expires_at)}
        rows == {[task |-> locks[k].task_id, agent |-> locks[k].agent_role,
                  claimed |-> Cut19(locks[k].claimed_at),
                  expires |-> Cut19(locks[k].expires_at)] : k \in live}
    IN  IF DOMAIN locks = {}
        THEN Res(0, Out("INFO", "No active locks.", ""), FALSE, state)
        ELSE Res(0, Table("Active Task Locks", rows), live # DOMAIN locks,
                 Put(state, "task_locks", [k \in live |-> locks[k]]))

\* args.task_command == "locks"
task_locks_list(state) ==
    LET locks == Get(state, "task_locks", NoLocks)
        rows == {[task |-> locks[k].task_id, agent |-> locks[k].agent_role,
                  claimed |-> Cut19(locks[k].claimed_at),
                  expires |-> Cut19(locks[k].expires_at)] : k \in DOMAIN locks}
    IN  IF DOMAIN locks = {}
        THEN Res(0, Out("INFO", "No active locks.", ""), FALSE, state)
        ELSE Res(0, Table("Active Task Locks", rows), FALSE, state)

\* an unlock that reports success when nothing is locked
task_unlock_silent(state, id) ==
    LET task_locks == Get(state, "task_locks", NoLocks)
        rest == [k \in DOMAIN task_locks \ {id} |-> task_locks[k]]
    IN  IF id \in DOMAIN task_locks
        THEN Res(0, Out("OK", "Force unlocked task", id), TRUE, Put(state, "task_locks", rest))
        ELSE Res(0, Out("OK", "Force unlocked task", id), FALSE, state)

\* args.task_command == "unlock"
task_unlock(state, id) ==
    LET task_locks == Get(state, "task_locks", NoLocks)
        rest == [k \in DOMAIN task_locks \ {id} |-> task_locks[k]]
    IN  IF id \in DOMAIN task_locks
        THEN Res(0, Out("OK", "Force unlocked task", id), TRUE, Put(state, "task_locks", rest))
        ELSE Res(1, Out("ERROR", "Task is not locked", id), FALSE, state)

\* the decimal digits of n, most significant first
RECURSIVE Digits(_)
Digits(n) == IF n < 10 THEN <<n>> ELSE Append(Digits(n \div 10), n % 10)

\* the 03 of {n:03d}: zeros in front until there are three digits
RECURSIVE Pad3(_)
Pad3(digits) == IF Len(digits) >= 3 THEN digits ELSE Pad3(<<0>> \o digits)

\* f"TASK-{n:03d}"
TaskIdFormat(n) == [prefix |-> "TASK-", digits |-> Pad3(Digits(n))]

\* args.task_command == "list"
task_list(state, status, feature) ==
    LET all == Get(state, "tasks", <<>>)
        byStatus == IF status \in {None, ""} THEN all
                    ELSE SelectSeq(all, LAMBDA x : x.status = status)
        tasks == IF feature \in {None, ""} THEN byStatus
                 ELSE SelectSeq(byStatus, LAMBDA x : x.feature = feature)
        rows == {[task |-> x.id, title |-> x.title, status |-> x.status,
                  assignee |-> x.assignee, feature |-> x.feature] : x \in Range(tasks)}
    IN  IF tasks = <<>>
        THEN Res(0, Out("INFO", "No tasks found.", ""), FALSE, state)
        ELSE Res(0, Table("Tasks", rows), FALSE, state)

\* a create that numbers the task by the tasks already in the list
task_create_from_zero(state, title, t) ==
    LET task_id == TaskIdFormat(Len(Get(state, "tasks", <<>>)))
        task == [id |-> task_id, title |-> title, description |-> "", status |-> "pending",
                 assignee |-> None, feature |-> None, priority |-> "medium",
                 created_at |-> IsoFormat(t), updated_at |-> IsoFormat(t),
                 completed_at |-> None]
    IN  Res(0, Out("OK", "Created task", task_id), TRUE,
            Put(state, "tasks", Append(Get(state, "tasks", <<>>), task)))

\* args.task_command == "create"
task_create(state, title, t) ==
    LET task_id == TaskIdFormat(Len(Get(state, "tasks", <<>>)) + 1)
        task == [id |-> task_id, title |-> title, description |-> "", status |-> "pending",
                 assignee |-> None, feature |-> None, priority |-> "medium",
                 created_at |-> IsoFormat(t), updated_at |-> IsoFormat(t),
                 completed_at |-> None]
    IN  Res(0, Out("OK", "Created task", task_id), TRUE,
            Put(state, "tasks", Append(Get(state, "tasks", <<>>), task)))

\* cmd_task(args), from the file it finds and the clock reading t
cmd_task(f, args, t) ==
    LET loaded == load_state(f)
        state == loaded.doc
    IN  IF loaded.kind = "error"
        THEN Res(1, Out("TRACEBACK", "json.JSONDecodeError", ""), FALSE, state)
        ELSE IF Falsy(loaded)
        THEN Res(1, Out("ERROR", "No project found.", ""), FALSE, state)
        ELSE IF args.sub = "list" THEN task_list(state, args.role, None)
        ELSE IF args.sub = "create" THEN task_create(state, args.id, t)
        ELSE IF args.sub = "claim" THEN task_claim(state, args.id, args.role, t)
        ELSE IF args.sub = "release" THEN task_release(state, args.id)
        ELSE IF args.sub = "locks" THEN task_locks_list(state)
        ELSE IF args.sub = "unlock" THEN task_unlock(state, args.id)
        ELSE Res(0, NoOut, FALSE, state)

----------------------------------------------------------------------------
(* Commands: Decision *)

\* args.decision_command == "add"
decision_add(state, id, t) ==
    LET decision == [id |-> id, title |-> "title", description |-> "description",
                     rationale |-> "rationale", created_at |-> IsoFormat(t)]
    IN  Res(0, Out("OK", "Added decision", id), TRUE,
            Put(state, "decisions", Append(Get(state, "decisions", <<>>), decision)))

\* args.decision_command == "list"
decision_list(state) ==
    LET decisions == Get(state, "decisions", <<>>)
    IN  IF decisions = <<>>
        THEN Res(0, Out("INFO", "No decisions recorded.", ""), FALSE, state)
        ELSE Res(0, Table("Project Decisions", Range(decisions)), FALSE, state)

\* cmd_decision(args)
cmd_decision(f, args, t) ==
    LET loaded == load_state(f)
        state == loaded.doc
    IN  IF loaded.kind = "error"
        THEN Res(1, Out("TRACEBACK", "json.JSONDecodeError", ""), FALSE, state)
        ELSE IF Falsy(loaded)
        THEN Res(1, Out("ERROR", "No project found.", ""), FALSE, state)
        ELSE IF args.sub = "list" THEN decision_list(state)
        ELSE IF args.sub = "add" THEN decision_add(state, args.id, t)
        ELSE Res(0, NoOut, FALSE, state)

----------------------------------------------------------------------------
(* Main *)

\* the parsed command line: command, sub-command, the positional argument (id or
\* title) and the one option given with it (--role, --set, --status, --enabled)
Args(command, sub, id, role) ==
    [role |-> role, id |-> id, sub |-> sub, command |-> command]

\* args.func(args): the handler the sub-parser set
main(f, args, t) ==
    IF args.command = "status" THEN cmd_status(f, args, t)
    ELSE IF args.command = "phase" THEN cmd_phase(f, args, t)
    ELSE IF args.command = "task" THEN cmd_task(f, args, t)
    ELSE IF args.command = "feature" THEN cmd_feature(f, args, t)
    ELSE cmd_decision(f, args, t)

----------------------------------------------------------------------------
(* Commands run one at a time *)

\* the record kept of a command: what was asked, when, and what came of it
Ran(args, t, r, before) ==
    [args |-> args, at |-> t, exit |-> r.exit, out |-> r.out, saved |-> r.save,
     before |-> before]

\* no command has run yet
NoRun ==
    [args |-> Args("", "", "", ""), at |-> 0, exit |-> 0, out |-> NoOut, saved |-> FALSE,
     before |-> AbsentFile]

\* a process that has not been started
IdleProc ==
    [pc |-> "idle", args |-> Args("", "", "", ""), at |-> 0, exit |-> 0, out |-> NoOut,
     before |-> AbsentFile, state |-> BlankDoc, n |-> 0]

\* one whole invocation: load, handle, save when the handler saves, exit
Invoke(args) ==
    LET r == main(file, args, now)
    IN  /\ file' = IF r.save THEN save_state(r.state) ELSE file
        /\ last' = Ran(args, now, r, file)
        /\ prev' = last
        /\ UNCHANGED <<now, procs>>

\* nyoworks task claim <id> [--role R]
TaskClaim == \E id \in TaskIds, role \in Roles : Invoke(Args("task", "claim", id, role))

\* nyoworks task release <id>
TaskRelease == \E id \in TaskIds : Invoke(Args("task", "release", id, ""))

\* nyoworks task locks
TaskLocks == Invoke(Args("task", "locks", "", ""))

\* nyoworks task unlock <id>
TaskUnlock == \E id \in TaskIds : Invoke(Args("task", "unlock", id, ""))

\* the wall clock moves on between two commands
Tick ==
    /\ now + TickMinutes <= MaxNow
    /\ now' = now + TickMinutes
    /\ UNCHANGED <<file, last, prev, procs>>

Init ==
    /\ file \in {AbsentFile, save_state(FullProject), save_state(BareProject)}
    /\ now = 0
    /\ last = NoRun
    /\ prev = NoRun
    /\ procs = [p \in Procs |-> IdleProc]

Next == TaskClaim \/ TaskRelease \/ TaskLocks \/ TaskUnlock \/ Tick

Spec == Init /\ [][Next]_vars

----------------------------------------------------------------------------
(* Every command of the CLI, run one at a time *)

\* one whole invocation, the one before it not kept
Run(args) ==
    LET r == main(file, args, now)
    IN  /\ file' = IF r.save THEN save_state(r.state) ELSE file
        /\ last' = Ran(args, now, r, file)
        /\ UNCHANGED <<now, prev, procs>>

\* the tasks and the decisions of the file, none when it does not parse
TasksIn(f) == Get(load_state(f).doc, "tasks", <<>>)
DecisionsIn(f) == Get(load_state(f).doc, "decisions", <<>>)

\* nyoworks status
RunStatus == Run(Args("status", "", "", None))

\* nyoworks phase [--set P]
RunPhase == \E set \in PhaseInputs : Run(Args("phase", "", "", set))

\* nyoworks task list [--status S]
RunTaskList == \E status \in {None, "pending"} : Run(Args("task", "list", "", status))

\* nyoworks task create <title>
RunTaskCreate ==
    /\ Len(TasksIn(file)) < MaxEntries
    /\ \E title \in Titles : Run(Args("task", "create", title, None))

\* nyoworks task claim <id> [--role R]
RunTaskClaim == \E id \in TaskIds, role \in RolesGiven : Run(Args("task", "claim", id, role))

\* nyoworks task release <id>
RunTaskRelease == \E id \in TaskIds : Run(Args("task", "release", id, None))

\* nyoworks task locks
RunTaskLocks == Run(Args("task", "locks", "", None))

\* nyoworks task unlock <id>
RunTaskUnlock == \E id \in TaskIds : Run(Args("task", "unlock", id, None))

\* nyoworks feature list [--enabled]
RunFeatureList == \E only \in {None, "--enabled"} : Run(Args("feature", "list", "", only))

\* nyoworks feature enable <id>
RunFeatureEnable == \E id \in {"payments", "billing"} : Run(Args("feature", "enable", id, None))

\* nyoworks feature disable <id>
RunFeatureDisable == \E id \in {"payments", "billing"} : Run(Args("feature", "disable", id, None))

\* nyoworks decision list
RunDecisionList == Run(Args("decision", "list", "", None))

\* nyoworks decision add <id> <title> <description> <rationale>
RunDecisionAdd ==
    /\ Len(DecisionsIn(file)) < MaxEntries
    /\ \E id \in DecisionIds : Run(Args("decision", "add", id, None))

NextAll ==
    \/ RunStatus \/ RunPhase
    \/ RunTaskList \/ RunTaskCreate
    \/ RunTaskClaim \/ RunTaskRelease \/ RunTaskLocks \/ RunTaskUnlock
    \/ RunFeatureList \/ RunFeatureEnable \/ RunFeatureDisable
    \/ RunDecisionList \/ RunDecisionAdd

SpecAll == Init /\ [][NextAll]_vars

(* The lease commands, the commands that write the phase, the features and *)
(* the decisions, and the clock                                            *)

\* a project whose document has every key
InitLife == Init /\ file = save_state(FullProject)

NextLife ==
    \/ RunTaskClaim \/ RunTaskRelease \/ RunTaskUnlock \/ RunTaskLocks
    \/ RunPhase \/ RunFeatureEnable \/ RunFeatureDisable \/ RunDecisionAdd
    \/ Tick

SpecLife == InitLife /\ [][NextLife]_vars

-----------------------------------------------------------------------------
(* The feature commands alone, from projects whose enabled_features is     *)
(* missing, empty or already holds a feature                               *)

\* a project with one feature enabled
FeatureProject == Put(FullProject, "enabled_features", <<"crm">>)

\* nyoworks feature list [--enabled]
FeatureList == \E only \in {None, "--enabled"} : Run(Args("feature", "list", "", only))

\* nyoworks feature enable <id>
FeatureEnable == \E id \in FeatureInputs : Run(Args("feature", "enable", id, None))

\* nyoworks feature disable <id>
FeatureDisable == \E id \in FeatureInputs : Run(Args("feature", "disable", id, None))

InitFeature ==
    /\ file \in {save_state(FullProject), save_state(BareProject), save_state(FeatureProject)}
    /\ now = 0
    /\ last = NoRun
    /\ prev = NoRun
    /\ procs = [p \in Procs |-> IdleProc]

NextFeature == FeatureList \/ FeatureEnable \/ FeatureDisable

SpecFeature == InitFeature /\ [][NextFeature]_vars

----------------------------------------------------------------------------
(* Commands run as separate processes.  A process reads the file in one    *)
(* step (load_state), works on its own copy, and writes it back in         *)
(* save_state: open(state_file, "w") empties the file, json.dump then      *)
(* fills it block by block.  Nothing locks the file, and a process may be  *)
(* killed between any two of these steps.                                  *)

\* keys that fit in one block json.dump hands to the file
FlushKeys == 4

\* the commands a process may be started with
ProcArgs ==
    {Args("task", "claim", id, role) : id \in TaskIds, role \in Roles}
    \cup {Args("task", "release", id, "") : id \in TaskIds}
    \cup {Args("decision", "add", id, "") : id \in DecisionIds}

\* process p starts, loads the file and runs its handler up to save_state
Load(p) ==
    /\ procs[p].pc = "idle"
    /\ \E args \in ProcArgs :
          LET r == main(file, args, now)
          IN  /\ args.command = "decision"
                 => Len(Get(load_state(file).doc, "decisions", <<>>)) < MaxDecisions
              /\ procs' = [procs EXCEPT ![p] =
                    [pc |-> IF r.save THEN "open" ELSE "done", args |-> args, at |-> now,
                     exit |-> r.exit, out |-> r.out, before |-> file, state |-> r.state,
                     n |-> 0]]
    /\ UNCHANGED <<file, now, last, prev>>

\* save_state: mkdir, open(state_file, "w") leaves an empty file
SaveOpen(p) ==
    /\ procs[p].pc = "open"
    /\ file' = FileOf(procs[p].state, 0)
    /\ procs' = [procs EXCEPT ![p].pc = "write"]
    /\ UNCHANGED <<now, last, prev>>

\* save_state: json.dump writes its next block at the process's own offset;
\* after the last block the file is closed, the success line printed and the
\* process exits.  A file cut below the offset by another open(.., "w") gets
\* a hole; a file that is no longer what this process wrote takes the block
\* over the other writer's bytes, in step with them or not.
SaveWrite(p) ==
    /\ procs[p].pc = "write"
    /\ LET n == procs[p].n
           k == IF n + FlushKeys < Total THEN n + FlushKeys ELSE Total
       IN  /\ \/ /\ ~file.bad /\ file.n >= n
                 /\ file' = Overlay(file, procs[p].state, n, k)
              \/ /\ file.bad \/ file.n < n \/ file # FileOf(procs[p].state, n)
                 /\ file' = Garbled
           /\ procs' = [procs EXCEPT ![p].n = k,
                                     ![p].pc = IF k = Total THEN "done" ELSE "write"]
    /\ UNCHANGED <<now, last, prev>>

\* process p is killed inside save_state
Crash(p) ==
    /\ procs[p].pc \in {"open", "write"}
    /\ procs' = [procs EXCEPT ![p].pc = "crashed", ![p].exit = 137, ![p].out = NoOut]
    /\ UNCHANGED <<file, now, last, prev>>

NextConc ==
    \/ \E p \in Procs : Load(p)
    \/ \E p \in Procs : SaveOpen(p)
    \/ \E p \in Procs : SaveWrite(p)
    \/ \E p \in Procs : Crash(p)
    \/ Tick

SpecConc == Init /\ [][NextConc]_vars

-----------------------------------------------------------------------------
(* Task creation, by commands run one at a time and by processes whose     *)
(* load_state and save_state steps interleave                              *)

\* longest task list built
MaxTasks == 3

\* titles given to task create
CreateTitles == {"Fix login", "Add export"}

\* no process is between its load_state and the end of its save_state
NoneRunning == \A p \in Procs : procs[p].pc \in {"idle", "done"}

\* nyoworks task create <title>, run from start to end with nothing else running
CreateAlone ==
    /\ NoneRunning
    /\ Len(TasksIn(file)) < MaxTasks
    /\ \E title \in CreateTitles : Run(Args("task", "create", title, None))

\* process p starts nyoworks task create <title>, loads the file and builds the task
CreateLoad(p) ==
    /\ procs[p].pc = "idle"
    /\ Len(TasksIn(file)) < MaxTasks
    /\ \E title \in CreateTitles :
          LET args == Args("task", "create", title, None)
              r == main(file, args, now)
          IN  procs' = [procs EXCEPT ![p] =
                 [pc |-> IF r.save THEN "open" ELSE "done", args |-> args, at |-> now,
                  exit |-> r.exit, out |-> r.out, before |-> file, state |-> r.state,
                  n |-> 0]]
    /\ UNCHANGED <<file, now, last, prev>>

\* process p has returned from main; the next invocation starts afresh
CreateExit(p) ==
    /\ procs[p].pc = "done"
    /\ procs' = [procs EXCEPT ![p] = IdleProc]
    /\ UNCHANGED <<file, now, last, prev>>

InitCreate == Init /\ file \in {save_state(FullProject), save_state(BareProject)}

NextCreate ==
    \/ CreateAlone
    \/ \E p \in Procs : CreateLoad(p)
    \/ \E p \in Procs : SaveOpen(p)
    \/ \E p \in Procs : SaveWrite(p)
    \/ \E p \in Procs : CreateExit(p)

SpecCreate == InitCreate /\ [][NextCreate]_vars

----------------------------------------------------------------------------
(* Vocabulary of the properties *)

\* the file holds a project a command accepts
HasProject(f) == load_state(f).kind = "state" /\ ~Falsy(load_state(f))

\* the Lease Table a file holds
LocksIn(f) == Get(load_state(f).doc, "task_locks", NoLocks)

\* the holder a claim made with this --role is entitled to
HolderFor(role) == IF role = NoRole THEN "manual" ELSE role

\* the lease is past its expires_at at time t
Expired(lease, t) == t >= FromIso(lease.expires_at)

\* the command last run was `task <sub>` on a project
LastTask(sub) == last.args.command = "task" /\ last.args.sub = sub /\ HasProject(last.before)

\* the command before the last was `task <sub>` on a project
PrevTask(sub) == prev.args.command = "task" /\ prev.args.sub = sub /\ HasProject(prev.before)

----------------------------------------------------------------------------
(* C1: a claim of a task that holds an unexpired lease fails with exit 1,  *)
(* names the current holder, whoever claims (the holder included), and     *)
(* leaves the file as it was; the second of two claims in succession made  *)
(* within the lease time fails.                                            *)
C1_MutualExclusion ==
    /\ (/\ LastTask("claim")
        /\ last.args.id \in DOMAIN LocksIn(last.before)
        /\ ~Expired(LocksIn(last.before)[last.args.id], last.at))
       => /\ last.exit = 1
          /\ last.out = Out("ERROR", "Task already claimed by",
                            LocksIn(last.before)[last.args.id].agent_role)
          /\ ~last.saved
          /\ file = last.before
    /\ (/\ PrevTask("claim") /\ prev.exit = 0
        /\ LastTask("claim") /\ last.args.id = prev.args.id
        /\ last.at < prev.at + LeaseMinutes)
       => last.exit = 1 /\ last.out.arg = HolderFor(prev.args.role)

\* a second claim within the lease time, made by the holder itself, refused
C1_Witness ==
    /\ PrevTask("claim") /\ prev.exit = 0 /\ prev.args.role = "backend-agent"
    /\ LastTask("claim") /\ last.args.id = prev.args.id
    /\ last.args.role = "backend-agent"
    /\ last.at = prev.at + TickMinutes
    /\ last.exit = 1 /\ last.out.arg = "backend-agent"

(* C2: a claim by another holder made at or after the expires_at of the    *)
(* lease in the table succeeds and leaves the task leased to the new       *)
(* holder from the time of that claim for 30 minutes.                      *)
C2_ExpirySupersession ==
    (/\ LastTask("claim")
     /\ last.args.id \in DOMAIN LocksIn(last.before)
     /\ Expired(LocksIn(last.before)[last.args.id], last.at)
     /\ HolderFor(last.args.role) # LocksIn(last.before)[last.args.id].agent_role)
    => /\ last.exit = 0
       /\ last.args.id \in DOMAIN LocksIn(file)
       /\ LocksIn(file)[last.args.id].agent_role = HolderFor(last.args.role)
       /\ FromIso(LocksIn(file)[last.args.id].claimed_at) = last.at
       /\ FromIso(LocksIn(file)[last.args.id].expires_at) = last.at + LeaseMinutes

C5_ReleaseNotIdempotent ==
    /\ (LastTask("release") /\ last.args.id \notin DOMAIN LocksIn(last.before))
       => /\ last.exit = 1
          /\ last.out = Out("ERROR", "Task is not locked", last.args.id)
          /\ ~last.saved
          /\ file = last.before
    /\ (/\ PrevTask("release") /\ prev.exit = 0
        /\ LastTask("release") /\ last.args.id = prev.args.id)
       => last.exit = 1

\* claim, release, release again: the first release removed a lease, the second fails
C5_Witness ==
    /\ PrevTask("release") /\ prev.exit = 0
    /\ prev.args.id \in DOMAIN LocksIn(prev.before)
    /\ LastTask("release") /\ last.args.id = prev.args.id
    /\ last.exit = 1

(* C6: a release of a task that has an entry succeeds and removes that     *)
(* entry, whoever holds it and expired or not, leaving every other entry;  *)
(* a claim of the task run next succeeds for any role.                     *)
C6_ReleaseUnconditional ==
    /\ (LastTask("release") /\ last.args.id \in DOMAIN LocksIn(last.before))
       => /\ last.exit = 0
          /\ HasProject(file)
          /\ DOMAIN LocksIn(file) = DOMAIN LocksIn(last.before) \ {last.args.id}
          /\ \A k \in DOMAIN LocksIn(file) : LocksIn(file)[k] = LocksIn(last.before)[k]
    /\ (/\ PrevTask("release") /\ prev.exit = 0
        /\ LastTask("claim") /\ last.args.id = prev.args.id)
       => /\ last.exit = 0
          /\ LocksIn(file)[last.args.id].agent_role = HolderFor(last.args.role)

\* an expired lease and an unexpired one of another task; the expired one is
\* released and the task claimed again
C6_Witness ==
    /\ PrevTask("release") /\ prev.exit = 0
    /\ Expired(LocksIn(prev.before)[prev.args.id], prev.at)
    /\ \E k \in DOMAIN LocksIn(prev.before) :
          k # prev.args.id /\ ~Expired(LocksIn(prev.before)[k], prev.at)
    /\ LastTask("claim") /\ last.args.id = prev.args.id
    /\ last.exit = 0

(* C7: in every reachable state and for every task id, unlock and release  *)
(* end with the same exit code, save or not alike, and leave the same      *)
(* document; after a claim by one role and an unlock, a claim by another   *)
(* role leaves the task leased to that other role.                         *)
C7_UnlockEqualsRelease ==
    /\ \A id \in TaskIds :
          LET rel == main(file, Args("task", "release", id, ""), now)
              unl == main(file, Args("task", "unlock", id, ""), now)
          IN  /\ rel.exit = unl.exit
              /\ rel.save = unl.save
              /\ rel.state = unl.state
              /\ (rel.exit = 1 => rel.out = unl.out)
    /\ (/\ PrevTask("unlock") /\ prev.exit = 0
        /\ LastTask("claim") /\ last.args.id = prev.args.id)
       => /\ last.exit = 0
          /\ LocksIn(file)[last.args.id].agent_role = HolderFor(last.args.role)

\* claim by backend-agent, unlock, claim by qa-agent
C7_Witness ==
    /\ PrevTask("unlock") /\ prev.exit = 0
    /\ LocksIn(prev.before)[prev.args.id].agent_role = "backend-agent"
    /\ LastTask("claim") /\ last.args.id = prev.args.id /\ last.args.role = "qa-agent"
    /\ last.exit = 0
    /\ LocksIn(file)[last.args.id].agent_role = "qa-agent"

(* C8: a listing shows one row for every entry of the table, expired ones  *)
(* included, and no row for a task that has no entry; it exits 0 and       *)
(* leaves the file as it was.                                              *)
C8_ListingRawTable ==
    LastTask("locks")
    => /\ last.exit = 0
       /\ ~last.saved
       /\ file = last.before
       /\ \A k \in DOMAIN LocksIn(last.before) :
             \E r \in last.out.rows :
                /\ r.task = k
                /\ r.agent = LocksIn(last.before)[k].agent_role
                /\ r.claimed = LocksIn(last.before)[k].claimed_at
                /\ r.expires = LocksIn(last.before)[k].expires_at
       /\ \A r \in last.out.rows : r.task \in DOMAIN LocksIn(last.before)
       /\ Cardinality(last.out.rows) = Cardinality(DOMAIN LocksIn(last.before))

\* a listing of a table that holds an expired lease and an unexpired one
C8_Witness ==
    /\ LastTask("locks")
    /\ \E k \in DOMAIN LocksIn(last.before) : Expired(LocksIn(last.before)[k], last.at)
    /\ \E k \in DOMAIN LocksIn(last.before) : ~Expired(LocksIn(last.before)[k], last.at)
    /\ Cardinality(last.out.rows) = 2

----------------------------------------------------------------------------
(* Vocabulary of the properties about processes *)

\* process p has finished and reported success
Succeeded(p) == procs[p].pc = "done" /\ procs[p].exit = 0

\* process p ran `task claim` of this id
Claimed(p, id) ==
    procs[p].args.command = "task" /\ procs[p].args.sub = "claim" /\ procs[p].args.id = id

\* no process other than those in S was ever started
OnlyRan(S) == \A r \in Procs \ S : procs[r].pc = "idle"

(* C3: of two processes that claim the same task within the lease time of  *)
(* each other, with no other process at work, at most one reports success. *)
C3_AtomicClaim ==
    \A p, q \in Procs, id \in TaskIds :
       (/\ p # q
        /\ Claimed(p, id) /\ Claimed(q, id)
        /\ OnlyRan({p, q})
        /\ procs[p].at < procs[q].at + LeaseMinutes
        /\ procs[q].at < procs[p].at + LeaseMinutes)
       => ~(Succeeded(p) /\ Succeeded(q))

(* C9: when the only process that ran was killed inside save_state, the    *)
(* file is either the one it loaded or the whole document it was saving.   *)
C9_CrashAtomicSave ==
    \A p \in Procs :
       (procs[p].pc = "crashed" /\ OnlyRan({p}))
       => file \in {procs[p].before, save_state(procs[p].state)}

(* C10: when a decision add and a task claim, or the claims of two         *)
(* different tasks, run as two processes with no other process at work and *)
(* both report success, the file holds both the decision and the lease,    *)
(* or both leases.                                                         *)
C10_NoLostUpdates ==
    \A p, q \in Procs :
       (p # q /\ Succeeded(p) /\ Succeeded(q) /\ OnlyRan({p, q}))
       => /\ \A id \in TaskIds, d \in DecisionIds :
                (Claimed(p, id) /\ procs[q].args.command = "decision" /\ procs[q].args.id = d)
                => /\ HasProject(file)
                   /\ id \in DOMAIN LocksIn(file)
                   /\ \E i \in DOMAIN load_state(file).doc.decisions :
                         load_state(file).doc.decisions[i].id = d
          /\ \A id1, id2 \in TaskIds :
                (id1 # id2 /\ Claimed(p, id1) /\ Claimed(q, id2))
                => /\ HasProject(file)
                   /\ {id1, id2} \subseteq DOMAIN LocksIn(file)

----------------------------------------------------------------------------
(* Vocabulary of the properties about every command *)

\* a command has run
LastRan == last.args.command # ""

\* the messages that reject a command for want of a project
NoProjectTexts ==
    {"No project found.", "No project found. Run 'nyoworks new' to create a project."}

(* C11: with no state file, every command exits 1 with "No project found"  *)
(* and the file stays absent; with a state file written by save_state, the *)
(* command is handed the document as it was saved and is not rejected for  *)
(* want of a project, and what a command saves is what load_state returns. *)
C11_NoProject ==
    /\ (LastRan /\ ~last.before.exists)
       => /\ last.exit = 1
          /\ last.out.kind = "ERROR" /\ last.out.text \in NoProjectTexts
          /\ ~last.saved
          /\ file = AbsentFile
    /\ (LastRan /\ last.before.exists)
       => /\ load_state(last.before).kind = "state"
          /\ last.out.text \notin NoProjectTexts
          /\ file.exists
    /\ (LastRan /\ last.saved)
       => load_state(file).doc = main(last.before, last.args, last.at).state

\* a feature enable run where there is no state file
C11_Witness ==
    /\ last.args.command = "feature" /\ last.args.sub = "enable"
    /\ last.args.id = "payments"
    /\ ~last.before.exists
    /\ last.exit = 1 /\ ~file.exists

\* the phase a file holds
PhaseIn(f) == Get(load_state(f).doc, "phase", "DISCOVERY")

\* the command last run was `phase` on a project
LastPhase == last.args.command = "phase" /\ HasProject(last.before)

(* C12: a phase --set with a value that is none of WORKFLOW_PHASES exits 1 *)
(* and leaves the file as it was; the phase a project file holds is always *)
(* one of WORKFLOW_PHASES; a --set with one of them exits 0 and changes    *)
(* the phase key and nothing else.                                         *)
C12_PhaseValidation ==
    /\ (LastPhase /\ last.args.role # None /\ last.args.role \notin Range(WORKFLOW_PHASES))
       => /\ last.exit = 1
          /\ ~last.saved
          /\ file = last.before
    /\ HasProject(file) => PhaseIn(file) \in Range(WORKFLOW_PHASES)
    /\ (LastPhase /\ last.args.role \in Range(WORKFLOW_PHASES))
       => /\ last.exit = 0
          /\ PhaseIn(file) = last.args.role
          /\ file = save_state(Put(load_state(last.before).doc, "phase", last.args.role))

\* the holder the code records for a --role value
HolderGiven(role) == IF role \in {None, ""} THEN "manual" ELSE role

\* the command last run was a successful `task <sub>` of this id
LastDid(sub, id) ==
    /\ last.args.command = "task" /\ last.args.sub = sub /\ last.args.id = id
    /\ last.exit = 0

(* C13: a lease in the table is gone or different after a command only     *)
(* when that command was a successful release or unlock of its task, or a  *)
(* successful claim of its task made at or after its expires_at; the       *)
(* clock, the listing, failed claims and the commands on other tasks and   *)
(* on the phase, the features and the decisions leave it in place.         *)
C13_LeaseLifecycle ==
    \A id \in DOMAIN LocksIn(last.before) :
       (id \notin DOMAIN LocksIn(file) \/ LocksIn(file)[id] # LocksIn(last.before)[id])
       => \/ LastDid("release", id)
          \/ LastDid("unlock", id)
          \/ LastDid("claim", id) /\ Expired(LocksIn(last.before)[id], last.at)

\* an expired lease that outlived a failed claim of its task and a further tick
C13_Witness ==
    /\ last.args.command = "task" /\ last.args.sub = "claim" /\ last.exit = 1
    /\ Expired(LocksIn(last.before)[last.args.id], last.at)
    /\ now > last.at
    /\ LocksIn(file)[last.args.id] = LocksIn(last.before)[last.args.id]
    /\ DecisionsIn(file) # <<>> /\ PhaseIn(file) = "QA"

(* C14: a lease that is in the table before and after a command has the    *)
(* same holder, claimed_at and expires_at, unless the command was a        *)
(* successful claim of its task made at or after its expires_at; a claim   *)
(* by the recorded holder before expiry fails and moves nothing.           *)
C14_LeaseImmutable ==
    /\ \A id \in DOMAIN LocksIn(last.before) \cap DOMAIN LocksIn(file) :
          \/ /\ LocksIn(file)[id].agent_role = LocksIn(last.before)[id].agent_role
             /\ LocksIn(file)[id].claimed_at = LocksIn(last.before)[id].claimed_at
             /\ LocksIn(file)[id].expires_at = LocksIn(last.before)[id].expires_at
          \/ LastDid("claim", id) /\ Expired(LocksIn(last.before)[id], last.at)
    /\ (/\ LastTask("claim")
        /\ last.args.id \in DOMAIN LocksIn(last.before)
        /\ HolderGiven(last.args.role) = LocksIn(last.before)[last.args.id].agent_role
        /\ ~Expired(LocksIn(last.before)[last.args.id], last.at))
       => /\ last.exit = 1
          /\ last.args.id \in DOMAIN LocksIn(file)
          /\ LocksIn(file)[last.args.id].expires_at
                = LocksIn(last.before)[last.args.id].expires_at

\* the holder claims its task again half way through the lease
C14_Witness ==
    /\ LastTask("claim") /\ last.args.role = "qa-agent"
    /\ last.args.id \in DOMAIN LocksIn(last.before)
    /\ LocksIn(last.before)[last.args.id].agent_role = "qa-agent"
    /\ last.at > FromIso(LocksIn(last.before)[last.args.id].claimed_at)
    /\ ~Expired(LocksIn(last.before)[last.args.id], last.at)
    /\ LocksIn(file)[last.args.id] = LocksIn(last.before)[last.args.id]

\* the command last run was a successful claim
LastClaimed == LastTask("claim") /\ last.exit = 0

LastLeaseOp ==
    /\ last.args.command = "task" /\ last.args.sub \in {"claim", "release", "unlock"}
    /\ HasProject(last.before)

\* the documents match on every key but task_locks: same keys written, same values
SameOtherFields(b, a) ==
    \A k \in KeySet \ {"task_locks"} : (k \in b.present <=> k \in a.present) /\ a[k] = b[k]

\* the tables match on every task id but this one
SameOtherLeases(b, a, id) ==
    /\ DOMAIN b \ {id} = DOMAIN a \ {id}
    /\ \A k \in DOMAIN b \ {id} : a[k] = b[k]

(* C16: run one at a time, a claim, a release or an unlock of task t, be   *)
(* it successful or not, leaves the leases of every other task and the     *)
(* name, code, phase, enabled_features, agents, tasks and decisions as     *)
(* they were; a failed one leaves the whole file as it was.                *)
C16_LeaseOpFrame ==
    LastLeaseOp
    => /\ SameOtherFields(load_state(last.before).doc, load_state(file).doc)
       /\ SameOtherLeases(LocksIn(last.before), LocksIn(file), last.args.id)
       /\ last.exit # 0 => file = last.before

\* a release that leaves another task's lease, a task, a decision and a feature behind
C16_Witness ==
    /\ LastLeaseOp /\ last.args.sub = "release" /\ last.exit = 0
    /\ DOMAIN LocksIn(last.before) = TaskIds
    /\ DOMAIN LocksIn(file) = TaskIds \ {last.args.id}
    /\ TasksIn(file) # <<>> /\ DecisionsIn(file) # <<>>
    /\ Get(load_state(file).doc, "enabled_features", <<>>) # <<>>

\* the lease runs from its claimed_at for the lease time, to the minute
WellFormed(id, lease) ==
    /\ lease.task_id = id
    /\ FromIso(lease.expires_at) = FromIso(lease.claimed_at) + LeaseMinutes

(* C17: in every state reached from an empty table by claims, releases,    *)
(* unlocks, listings and clock ticks, the entry stored under task id t     *)
(* names t as its task_id and expires exactly 30 minutes after its         *)
(* claimed_at.                                                             *)
C17_TableWellFormed ==
    HasProject(file) => \A id \in DOMAIN LocksIn(file) : WellFormed(id, LocksIn(file)[id])

\* both tasks leased at different times, one lease already past its expiry
C17_Witness ==
    /\ HasProject(file) /\ DOMAIN LocksIn(file) = TaskIds
    /\ \E a, b \in TaskIds :
          /\ LocksIn(file)[a].claimed_at # LocksIn(file)[b].claimed_at
          /\ WellFormed(a, LocksIn(file)[a]) /\ WellFormed(b, LocksIn(file)[b])
          /\ Expired(LocksIn(file)[a], now) /\ ~Expired(LocksIn(file)[b], now)
          /\ (FromIso(LocksIn(file)[b].claimed_at) % 60) + LeaseMinutes >= 60

\* the enabled_features list a file holds
EnabledIn(f) == Get(load_state(f).doc, "enabled_features", <<>>)

\* the command last run was `feature <sub>` on a project
LastFeature(sub) ==
    last.args.command = "feature" /\ last.args.sub = sub /\ HasProject(last.before)

\* no element of the list occurs twice
NoDuplicates(seq) == \A i, j \in DOMAIN seq : seq[i] = seq[j] => i = j

(* C18: from an enabled_features list without duplicates and with          *)
(* available ids only, every list the feature commands leave has no        *)
(* duplicates and available ids only; enable of an unknown id exits 1 and  *)
(* writes nothing; enable of an enabled id and disable of a not-enabled    *)
(* id report success and write nothing; the other enables append the id    *)
(* and the other disables take it out.                                     *)
C18_FeatureList ==
    /\ HasProject(file)
       => /\ NoDuplicates(EnabledIn(file))
          /\ Range(EnabledIn(file)) \subseteq Range(AVAILABLE_FEATURES)
    /\ (LastFeature("enable") /\ last.args.id \notin Range(AVAILABLE_FEATURES))
       => last.exit = 1 /\ last.out.kind = "ERROR" /\ ~last.saved /\ file = last.before
    /\ (LastFeature("enable") /\ last.args.id \in Range(EnabledIn(last.before)))
       => last.exit = 0 /\ last.out.kind = "OK" /\ ~last.saved /\ file = last.before
    /\ (LastFeature("disable") /\ last.args.id \notin Range(EnabledIn(last.before)))
       => last.exit = 0 /\ last.out.kind = "OK" /\ ~last.saved /\ file = last.before
    /\ (/\ LastFeature("enable")
        /\ last.args.id \in Range(AVAILABLE_FEATURES) \ Range(EnabledIn(last.before)))
       => last.exit = 0 /\ EnabledIn(file) = Append(EnabledIn(last.before), last.args.id)
    /\ (LastFeature("disable") /\ last.args.id \in Range(EnabledIn(last.before)))
       => /\ last.exit = 0
          /\ Range(EnabledIn(file)) = Range(EnabledIn(last.before)) \ {last.args.id}

\* enable of a feature that is already one of two enabled ones
C18_Witness ==
    /\ LastFeature("enable") /\ last.exit = 0 /\ ~last.saved
    /\ Len(EnabledIn(last.before)) = 2
    /\ last.args.id = EnabledIn(last.before)[1]
    /\ EnabledIn(file) = EnabledIn(last.before)

\* the k-th task of the list has the id numbered k, and no two tasks share an id
WellNumbered(tasks) ==
    /\ \A k \in DOMAIN tasks : tasks[k].id = TaskIdFormat(k)
    /\ \A i, j \in DOMAIN tasks : tasks[i].id = tasks[j].id => i = j

\* a create run alone that reports success adds one task at the end of the list
\* and leaves the other tasks and every other key of the document as they were
CreateAddsOne ==
    (last' # last /\ last'.exit = 0)
    => /\ HasProject(file) /\ HasProject(file')
       /\ Len(TasksIn(file')) = Len(TasksIn(file)) + 1
       /\ SubSeq(TasksIn(file'), 1, Len(TasksIn(file))) = TasksIn(file)
       /\ TasksIn(file')[Len(TasksIn(file'))].title = last'.args.id
       /\ load_state(file').doc.present = load_state(file).doc.present \cup {"tasks"}
       /\ \A k \in KeySet \ {"tasks"} : load_state(file').doc[k] = load_state(file).doc[k]

(* C19: from an empty task list, whatever creates have run, alone or with  *)
(* their load and save steps interleaved, a task list that can be read     *)
(* from the file has pairwise distinct ids and its k-th task has the id    *)
(* numbered k; a create run alone that reports success adds exactly one    *)
(* task and changes nothing else.                                          *)
C19_TaskIdsUnique ==
    /\ [](load_state(file).kind = "state" => WellNumbered(TasksIn(file)))
    /\ [][CreateAddsOne]_vars

\* two processes loaded the same file and both saved a task of their own;
\* the list that is left has one of the two and is numbered 1, 2
C19_Witness ==
    /\ \E p, q \in Procs :
          /\ procs[p].pc = "done" /\ procs[q].pc = "done"
          /\ procs[p].exit = 0 /\ procs[q].exit = 0
          /\ procs[p].before = procs[q].before
          /\ procs[p].args.id # procs[q].args.id
          /\ Len(TasksIn(procs[p].before)) = 1
    /\ HasProject(file) /\ Len(TasksIn(file)) = 2
    /\ WellNumbered(TasksIn(file))

====
